---- MODULE Spec2Model ----
(***************************************************************************)
(* The io_uring reactor of hiisi-server (src/hiisi-server/src/io/linux.rs) *)
(* as a state machine: the IO struct (key_seq, submissions, completions),  *)
(* the ring it owns (submission queue, requests in the kernel, completion  *)
(* queue), the reference counts of the Rc<Socket> handles, and the history *)
(* of what the kernel reported and what each continuation was handed.      *)
(*                                                                         *)
(* run_once is split at the points where the kernel, which runs            *)
(* concurrently with the reactor thread, can post a completion: after      *)
(* ring.submit(), between two iterations of the harvest loop, and between  *)
(* two continuations.  A continuation is caller code: while it runs        *)
(* (pc = "cb") it may call accept, recv, send, close on the handles it was *)
(* given, and then returns.  main.rs calls serve once, which makes the     *)
(* first calls on the listening socket (pc = "serve"), and from then on    *)
(* only run_once.                                                          *)
(***************************************************************************)
EXTENDS Integers, Sequences, FiniteSets, TLC

\* linux.rs:7 sets RING_SIZE to 1024; the model scales the submission ring to
\* two slots so that TLC reaches a full ring.  Nothing below depends on the
\* value other than through Len(sq) >= RING_SIZE.
RING_SIZE == 2

\* linux.rs:113 gives every recv a buffer of capacity 4096; scaled to 1 byte.
RECV_CAPACITY == 1

\* The descriptor of the listening socket main.rs creates (0, 1, 2 are the
\* standard streams).
ListenFd == 3

\* Bounds of the model.
MaxOps == 3        \* calls of get_key over a run
MaxBuf == 2        \* length of the buffers sent

\* Every connection comes from an accept, so MaxOps descriptors suffice.
Fds == 0 .. (ListenFd + MaxOps)
ConnFds == (ListenFd + 1) .. (ListenFd + MaxOps)
Keys == 0 .. (MaxOps - 1)

\* A negative kernel result (-errno), and the Err of a std send.
NegResults == {-1}

VARIABLES
    pc,           \* where the thread is: "serve", "idle", "submitted", "harvest",
                  \* "dispatch", "cb" (inside a continuation), "aborted"
    panic,        \* the panic that aborted the process, "none" while it runs
    key_seq,      \* IO::key_seq
    submissions,  \* IO::submissions: key -> Completion
    completions,  \* IO::completions: the ready queue
    sq,           \* ring: submission queue entries pushed and not yet submitted
    inflight,     \* ring: requests the kernel holds
    cq,           \* ring: completion queue entries not yet harvested
    avail,        \* entries the harvest iterator of this run_once has left
    rc,           \* Rc strong count of the Socket wrapping each descriptor
    fdstate,      \* descriptor: "closed", "raw" (open, owned by no Socket), "open"
    fdConn,       \* kernel: the connection a descriptor refers to (0: none)
    nextConn,     \* kernel: connections accepted so far
    cbArgs,       \* shares the running caller (serve, a continuation) holds
    keyLog,       \* history: the values get_key returned, in order
    kdone,        \* history: key -> what the kernel reported for it, kept
                  \* until the record is popped from the ready queue
    harvSeq,      \* history: keys harvested by the run_once in progress, in order
    dispSeq,      \* history: keys whose continuation it has invoked, in order
    invoked,      \* history: key -> number of invocations of its continuation
    handed,       \* history: the connections handed to accept continuations
    lastDisp,     \* history: the last record popped, what the kernel had
                  \* reported for it, and what its continuation was called with
    lastClosed    \* history: the descriptor of the last handle the running
                  \* caller gave to close (-1: none)

vars == <<pc, panic, key_seq, submissions, completions, sq, inflight, cq, avail,
          rc, fdstate, fdConn, nextConn, cbArgs,
          keyLog, kdone, harvSeq, dispSeq, invoked, handed, lastDisp,
          lastClosed>>

ring == <<sq, inflight, cq, avail>>
socks == <<rc, fdstate, fdConn>>
kernelHist == <<kdone, nextConn>>
Range(q) == {q[i] : i \in 1 .. Len(q)}
dispatchHist == <<harvSeq, dispSeq, invoked, handed, lastDisp>>

Zero == [f \in Fds |-> 0]
One(fd) == [f \in Fds |-> IF f = fd THEN 1 ELSE 0]

Min(S) == CHOOSE x \in S : \A y \in S : x <= y

----------------------------------------------------------------------------
\* Completion: the Operation Record.  key is not a field of the Rust enum: it
\* is the id the record is stored under, kept to tell operations apart.
Record(key, op, sock, buf_len, buf_cap, n) ==
    [key |-> key, op |-> op, sock |-> sock, fd |-> 0,
     buf_len |-> buf_len, buf_cap |-> buf_cap, n |-> n]

\* A submission queue entry: opcode(Fd(fd), ptr, len).build().user_data(key)
Sqe(key, op, fd, len) == [user_data |-> key, opcode |-> op, fd |-> fd, len |-> len]

Cqe(key, result) == [user_data |-> key, result |-> result]

\* get_key without the increment
GetKey_NoIncrement(ks) == [ret |-> ks, next |-> ks]

\* IO::get_key: the value returned and the new key_seq.
GetKey(ks) == [ret |-> ks, next |-> ks + 1]

\* enqueue that does not insert
Enqueue_Drop(table, key, c) == table

\* enqueue that replaces the table by the one new entry
Enqueue_Only(table, key, c) == (key :> c)

\* IO::enqueue: HashMap::insert
Enqueue(table, key, c) == (key :> c) @@ table

\* VecDeque::push_back
PushBack(q, c) == Append(q, c)

\* pop_back in the place of pop_front
PopFront_Back(q) == [c |-> q[Len(q)], rest |-> SubSeq(q, 1, Len(q) - 1)]

\* VecDeque::pop_front, on a queue that is not empty
PopFront(q) == [c |-> Head(q), rest |-> Tail(q)]

\* a lookup in the place of the removal
Remove_Keep(table, key) == table

\* HashMap::remove
Remove(table, key) == [k \in (DOMAIN table) \ {key} |-> table[k]]

\* prepare that does not store the result
Prepare_NoStore(c, result) == c

\* Completion::prepare
Prepare(c, result) ==
    IF c.op = "Accept" THEN [c EXCEPT !.fd = result] ELSE c

\* Dropping Rc shares: d[f] shares of each descriptor f.  The Socket is
\* dropped, and its descriptor closed, when the last share goes.
DropShares(d) ==
    LET rcN == [f \in Fds |-> rc[f] - d[f]]
        gone(f) == d[f] > 0 /\ rcN[f] = 0
    IN /\ rc' = rcN
       /\ fdstate' = [f \in Fds |-> IF gone(f) THEN "closed" ELSE fdstate[f]]
       /\ fdConn' = [f \in Fds |-> IF gone(f) THEN 0 ELSE fdConn[f]]

\* The caller gives up its share of sock: the one it passes by value.
Take(sock) == cbArgs' = [cbArgs EXCEPT ![sock] = @ - 1]

\* The handle a caller passes to accept, recv or send is its own (keep =
\* FALSE: the share moves into the record) or an Rc::clone of it (keep = TRUE:
\* one more share, and the caller still holds its own).
Pass(sock, keep) ==
    IF keep THEN UNCHANGED cbArgs ELSE Take(sock)

Has(sock) == cbArgs[sock] > 0

\* accept, recv, send and close are called by serve and by continuations.
Calling == pc \in {"serve", "cb"}

NoDispatch ==
    [key |-> -1, op |-> "none", result |-> 0, kconn |-> 0, called |-> FALSE,
     n |-> 0, dlen |-> 0, fd |-> 0, conn |-> 0]

----------------------------------------------------------------------------
Init ==
    /\ pc = "serve"
    /\ panic = "none"
    /\ key_seq = 0
    /\ submissions = [k \in {} |-> 0]
    /\ completions = << >>
    /\ sq = << >>
    /\ inflight = {}
    /\ cq = << >>
    /\ avail = 0
    /\ rc = One(ListenFd)
    /\ fdstate = [f \in Fds |-> IF f = ListenFd THEN "open"
                                ELSE IF f < ListenFd THEN "raw" ELSE "closed"]
    /\ fdConn = Zero
    /\ nextConn = 0
    /\ cbArgs = One(ListenFd)
    /\ keyLog = << >>
    /\ kdone = [k \in {} |-> 0]
    /\ harvSeq = << >>
    /\ dispSeq = << >>
    /\ invoked = [k \in Keys |-> 0]
    /\ handed = << >>
    /\ lastDisp = NoDispatch
    /\ lastClosed = -1

\* a submission that reaches the kernel at once, without ring.submit()
Submit_Eager(op, sock, keep, buf_len, buf_cap, n, len) ==
    LET k == GetKey(key_seq)
        c == Record(k.ret, op, sock, buf_len, buf_cap, n)
        e == Sqe(k.ret, op, sock, len)
    IN /\ Calling
       /\ Has(sock)
       /\ Len(keyLog) < MaxOps
       /\ Pass(sock, keep)
       /\ key_seq' = k.next
       /\ keyLog' = Append(keyLog, k.ret)
       /\ IF Len(sq) >= RING_SIZE
          THEN /\ pc' = "aborted"
               /\ panic' = "sq_full"
               /\ DropShares(IF keep THEN Zero ELSE One(sock))
               /\ UNCHANGED <<sq, inflight, submissions>>
          ELSE /\ inflight' = inflight \cup {e}
               /\ UNCHANGED sq
               /\ submissions' = Enqueue(submissions, k.ret, c)
               /\ rc' = [rc EXCEPT ![sock] = IF keep THEN @ + 1 ELSE @]
               /\ UNCHANGED <<pc, panic, fdstate, fdConn>>
       /\ UNCHANGED <<completions, cq, avail, kernelHist, dispatchHist, lastClosed>>

\* The tail every submitting call shares: get_key, build the entry, push it to
\* the submission queue (expect: a full queue panics, and the record is dropped
\* by the unwinding), enqueue the record.  len is the byte count given to the
\* opcode.
Submit(op, sock, keep, buf_len, buf_cap, n, len) ==
    LET k == GetKey(key_seq)
        c == Record(k.ret, op, sock, buf_len, buf_cap, n)
        e == Sqe(k.ret, op, sock, len)
    IN /\ Calling
       /\ Has(sock)
       /\ Len(keyLog) < MaxOps
       /\ Pass(sock, keep)
       /\ key_seq' = k.next
       /\ keyLog' = Append(keyLog, k.ret)
       /\ IF Len(sq) >= RING_SIZE
          THEN /\ pc' = "aborted"
               /\ panic' = "sq_full"
               /\ DropShares(IF keep THEN Zero ELSE One(sock))
               /\ UNCHANGED <<sq, submissions>>
          ELSE /\ sq' = Append(sq, e)
               /\ submissions' = Enqueue(submissions, k.ret, c)
               /\ rc' = [rc EXCEPT ![sock] = IF keep THEN @ + 1 ELSE @]
               /\ UNCHANGED <<pc, panic, fdstate, fdConn>>
       /\ UNCHANGED <<completions, inflight, cq, avail, kernelHist, dispatchHist, lastClosed>>

\* IO::accept
Accept(server_sock, keep) ==
    /\ server_sock = ListenFd
    /\ Submit("Accept", server_sock, keep, 0, 0, 0, 0)

\* IO::recv: the buffer is BytesMut::with_capacity(4096), of length 0
Recv(sock, keep) ==
    /\ sock \in ConnFds
    /\ Submit("Recv", sock, keep, 0, RECV_CAPACITY, 0, RECV_CAPACITY)

\* IO::send: the opcode is given buf.capacity()
Send(sock, keep, buf_len, buf_cap, n) ==
    /\ sock \in ConnFds
    /\ Submit("Send", sock, keep, buf_len, buf_cap, n, buf_cap)

\* close that closes the descriptor, whoever else holds a share
Close_Eager(sock) ==
    /\ Calling
    /\ Has(sock)
    /\ Take(sock)
    /\ rc' = [rc EXCEPT ![sock] = @ - 1]
    /\ fdstate' = [fdstate EXCEPT ![sock] = "closed"]
    /\ fdConn' = [fdConn EXCEPT ![sock] = 0]
    /\ lastClosed' = sock
    /\ UNCHANGED <<pc, panic, key_seq, submissions, completions, ring,
                   keyLog, kernelHist, dispatchHist>>

\* close that queues a Close record for the reactor
Close_Enqueue(sock) ==
    /\ Calling
    /\ Has(sock)
    /\ Len(keyLog) < MaxOps
    /\ cbArgs' = [cbArgs EXCEPT ![sock] = @ - 1]
    /\ key_seq' = GetKey(key_seq).next
    /\ keyLog' = Append(keyLog, GetKey(key_seq).ret)
    /\ submissions' = Enqueue(submissions, GetKey(key_seq).ret,
                              Record(GetKey(key_seq).ret, "Close", sock, 0, 0, 0))
    /\ lastClosed' = sock
    /\ UNCHANGED <<pc, panic, completions, ring, socks, kernelHist, dispatchHist>>

\* close that cancels the operations submitted on the socket
Close_Cancel(sock) ==
    /\ Calling
    /\ Has(sock)
    /\ Take(sock)
    /\ DropShares(One(sock))
    /\ lastClosed' = sock
    /\ submissions' = [k \in {j \in DOMAIN submissions : submissions[j].sock # sock}
                          |-> submissions[k]]
    /\ UNCHANGED <<pc, panic, key_seq, completions, ring,
                   keyLog, kernelHist, dispatchHist>>

\* IO::close
Close(sock) ==
    /\ Calling
    /\ Has(sock)
    /\ Take(sock)
    /\ DropShares(One(sock))
    /\ lastClosed' = sock
    /\ UNCHANGED <<pc, panic, key_seq, submissions, completions, ring,
                   keyLog, kernelHist, dispatchHist>>

\* main.rs: hiisi::serve(&mut io, sock, listen_addr) returns, dropping what it
\* did not pass on; the loop over run_once starts.
ServeReturn ==
    /\ pc = "serve"
    /\ pc' = "idle"
    /\ DropShares(cbArgs)
    /\ cbArgs' = Zero
    /\ lastClosed' = -1
    /\ UNCHANGED <<panic, key_seq, submissions, completions, ring,
                   keyLog, kernelHist, dispatchHist>>

----------------------------------------------------------------------------
\* The kernel.  It completes a request it holds with a result of its choosing:
\* accept yields the lowest free descriptor, bound to a new connection, recv a
\* byte count up to the length it was given, send a count of at least 1 up to
\* the length it was given; each may fail with a negative result instead.
KernelResults(e) ==
    NegResults \cup
    CASE e.opcode = "Accept" ->
            IF \E f \in ConnFds : fdstate[f] = "closed"
            THEN {Min({f \in ConnFds : fdstate[f] = "closed"})}
            ELSE {}
      [] e.opcode = "Recv" -> 0 .. e.len
      [] e.opcode = "Send" -> 1 .. e.len

KernelComplete(e, result) ==
    LET opened == e.opcode = "Accept" /\ result >= 0
        conn == IF opened THEN nextConn + 1 ELSE 0
    IN /\ pc # "aborted"
       /\ e \in inflight
       /\ result \in KernelResults(e)
       /\ inflight' = inflight \ {e}
       /\ cq' = Append(cq, Cqe(e.user_data, result))
       /\ kdone' = (e.user_data :> [result |-> result, conn |-> conn]) @@ kdone
       /\ nextConn' = IF opened THEN nextConn + 1 ELSE nextConn
       /\ fdstate' = IF opened THEN [fdstate EXCEPT ![result] = "raw"] ELSE fdstate
       /\ fdConn' = IF opened THEN [fdConn EXCEPT ![result] = conn] ELSE fdConn
       /\ UNCHANGED <<pc, panic, key_seq, submissions, completions, sq, avail,
                      rc, cbArgs, keyLog, dispatchHist, lastClosed>>

----------------------------------------------------------------------------
\* IO::run_once, first statement: ring.submit() hands every queued entry to
\* the kernel.
RunOnce ==
    /\ pc = "idle"
    /\ inflight' = inflight \cup {sq[i] : i \in 1 .. Len(sq)}
    /\ sq' = << >>
    /\ pc' = "submitted"
    /\ UNCHANGED <<panic, key_seq, submissions, completions, cq, avail, socks,
                   cbArgs, keyLog, kernelHist, dispatchHist, lastClosed>>

\* IO::flush_submissions: self.ring.completion() is an iterator over the
\* entries present when it is created; with none, the loop body never runs.
FlushSubmissionsBegin ==
    /\ pc = "submitted"
    /\ avail' = Len(cq)
    /\ pc' = IF Len(cq) = 0 THEN "dispatch" ELSE "harvest"
    /\ UNCHANGED <<panic, key_seq, submissions, completions, sq, inflight, cq,
                   socks, cbArgs, keyLog, kernelHist, dispatchHist, lastClosed>>

\* flush_submissions that dispatches after each event it harvested
FlushSubmissionsEvent_Interleaved ==
    /\ pc = "harvest"
    /\ avail > 0
    /\ LET event == Head(cq)
           key == event.user_data
       IN /\ cq' = Tail(cq)
          /\ avail' = avail - 1
          /\ IF key \in DOMAIN submissions /\ submissions[key].op = "Close"
             THEN \* prepare: Completion::Close => todo!()
                  /\ pc' = "aborted"
                  /\ panic' = "todo"
                  /\ submissions' = Remove(submissions, key)
                  /\ UNCHANGED <<completions, harvSeq>>
             ELSE IF key \in DOMAIN submissions
             THEN /\ completions' =
                        PushBack(completions, Prepare(submissions[key], event.result))
                  /\ submissions' = Remove(submissions, key)
                  /\ harvSeq' = Append(harvSeq, key)
                  /\ pc' = "dispatch"
                  /\ UNCHANGED panic
             ELSE \* submissions.remove(&key).unwrap()
                  /\ pc' = "aborted"
                  /\ panic' = "untracked"
                  /\ UNCHANGED <<completions, submissions, harvSeq>>
    /\ UNCHANGED <<key_seq, sq, inflight, socks, cbArgs, keyLog,
                   kernelHist, dispSeq, invoked, handed, lastDisp, lastClosed>>

\* flush_submissions that skips an event it has no record for
FlushSubmissionsEvent_SkipUntracked ==
    /\ pc = "harvest"
    /\ avail > 0
    /\ LET event == Head(cq)
           key == event.user_data
       IN /\ cq' = Tail(cq)
          /\ avail' = avail - 1
          /\ IF key \in DOMAIN submissions /\ submissions[key].op = "Close"
             THEN \* prepare: Completion::Close => todo!()
                  /\ pc' = "aborted"
                  /\ panic' = "todo"
                  /\ submissions' = Remove(submissions, key)
                  /\ UNCHANGED <<completions, harvSeq>>
             ELSE IF key \in DOMAIN submissions
             THEN /\ completions' =
                        PushBack(completions, Prepare(submissions[key], event.result))
                  /\ submissions' = Remove(submissions, key)
                  /\ harvSeq' = Append(harvSeq, key)
                  /\ pc' = IF avail = 1 THEN "dispatch" ELSE "harvest"
                  /\ UNCHANGED panic
             ELSE /\ pc' = IF avail = 1 THEN "dispatch" ELSE "harvest"
                  /\ UNCHANGED <<panic, completions, submissions, harvSeq>>
    /\ UNCHANGED <<key_seq, sq, inflight, socks, cbArgs, keyLog,
                   kernelHist, dispSeq, invoked, handed, lastDisp, lastClosed>>

\* IO::flush_submissions, one iteration of the loop; after the last one
\* run_once goes on to flush_completions
FlushSubmissionsEvent ==
    /\ pc = "harvest"
    /\ avail > 0
    /\ LET event == Head(cq)
           key == event.user_data
       IN /\ cq' = Tail(cq)
          /\ avail' = avail - 1
          /\ IF key \in DOMAIN submissions /\ submissions[key].op = "Close"
             THEN \* prepare: Completion::Close => todo!()
                  /\ pc' = "aborted"
                  /\ panic' = "todo"
                  /\ submissions' = Remove(submissions, key)
                  /\ UNCHANGED <<completions, harvSeq>>
             ELSE IF key \in DOMAIN submissions
             THEN /\ completions' =
                        PushBack(completions, Prepare(submissions[key], event.result))
                  /\ submissions' = Remove(submissions, key)
                  /\ harvSeq' = Append(harvSeq, key)
                  /\ pc' = IF avail = 1 THEN "dispatch" ELSE "harvest"
                  /\ UNCHANGED panic
             ELSE \* submissions.remove(&key).unwrap()
                  /\ pc' = "aborted"
                  /\ panic' = "untracked"
                  /\ UNCHANGED <<completions, submissions, harvSeq>>
    /\ UNCHANGED <<key_seq, sq, inflight, socks, cbArgs, keyLog,
                   kernelHist, dispSeq, invoked, handed, lastDisp, lastClosed>>

\* A record popped from the ready queue, with what the kernel had reported for
\* its key, and what its continuation is called with, if it is called: the
\* byte count n and the length dlen of the data slice (recv), the byte count n
\* (send), the descriptor fd the new Socket wraps and the connection conn that
\* descriptor refers to (accept).
Dispatched(c, called, n, dlen, fd) ==
    [key |-> c.key, op |-> c.op,
     result |-> kdone[c.key].result, kconn |-> kdone[c.key].conn,
     called |-> called, n |-> n, dlen |-> dlen, fd |-> fd,
     conn |-> IF fd \in Fds THEN fdConn[fd] ELSE 0]

\* The continuation is entered with the handles args.
Invoke(c, n, dlen, fd, args) ==
    /\ pc' = "cb"
    /\ cbArgs' = args
    /\ lastDisp' = Dispatched(c, TRUE, n, dlen, fd)
    /\ invoked' = [invoked EXCEPT ![c.key] = @ + 1]
    /\ handed' = IF c.op = "Accept" THEN Append(handed, fdConn[fd]) ELSE handed
    /\ dispSeq' = Append(dispSeq, c.key)
    /\ UNCHANGED panic

\* A panic inside complete: the record, and the share it holds, is dropped.
Panic(c, what) ==
    /\ pc' = "aborted"
    /\ panic' = what
    /\ DropShares(One(c.sock))
    /\ lastDisp' = Dispatched(c, FALSE, 0, 0, 0)
    /\ UNCHANGED <<cbArgs, invoked, handed, dispSeq>>

\* What sock.send(&buf[..n]) returns: Ok(count written) or Err.
SyncSendResults(n) == NegResults \cup (IF n = 0 THEN {0} ELSE 1 .. n)

\* Completion::complete
Complete(c) ==
    CASE c.op = "Accept" ->
            \* Socket::from_raw_fd refuses a negative descriptor, and
            \* local_addr().unwrap() one that is no socket.
            IF c.fd \notin Fds \/ (c.fd # ListenFd /\ fdConn[c.fd] = 0)
            THEN Panic(c, "accept_fd")
            ELSE /\ rc' = [rc EXCEPT ![c.fd] = @ + 1]
                 /\ fdstate' = [fdstate EXCEPT ![c.fd] = "open"]
                 /\ UNCHANGED fdConn
                 /\ Invoke(c, 0, 0, c.fd,
                           [f \in Fds |-> One(c.sock)[f] + One(c.fd)[f]])
      [] c.op = "Recv" ->
            \* n = buf.len(); cb(io, sock, &buf[..], n)
            /\ Invoke(c, c.buf_len, c.buf_len, 0, One(c.sock))
            /\ UNCHANGED socks
      [] c.op = "Send" ->
            \* n = sock.send(&buf[..n]).unwrap(); cb(io, sock, n)
            \E m \in SyncSendResults(c.n) :
                IF m < 0
                THEN Panic(c, "send_unwrap")
                ELSE /\ Invoke(c, m, 0, 0, One(c.sock))
                     /\ UNCHANGED socks
      [] c.op = "Close" ->
            \* Completion::Close => todo!(); the variant holds no socket
            /\ pc' = "aborted"
            /\ panic' = "todo"
            /\ lastDisp' = Dispatched(c, FALSE, 0, 0, 0)
            /\ UNCHANGED <<socks, cbArgs, invoked, handed, dispSeq>>

\* IO::flush_completions, one iteration of the loop: pop_front and complete
FlushCompletionsPop ==
    /\ pc = "dispatch"
    /\ completions # << >>
    /\ completions' = PopFront(completions).rest
    /\ Complete(PopFront(completions).c)
    /\ kdone' = Remove(kdone, PopFront(completions).c.key)
    /\ UNCHANGED <<key_seq, submissions, ring, nextConn, keyLog, harvSeq,
                   lastClosed>>

\* IO::flush_completions: the queue is empty, run_once returns
FlushCompletionsEnd ==
    /\ pc = "dispatch"
    /\ completions = << >>
    /\ pc' = "idle"
    /\ harvSeq' = << >>
    /\ dispSeq' = << >>
    /\ UNCHANGED <<panic, key_seq, submissions, completions, ring, socks,
                   cbArgs, keyLog, kernelHist, invoked, handed, lastDisp,
                   lastClosed>>

\* The continuation returns: the handles it still holds are dropped.
CbReturn ==
    /\ pc = "cb"
    /\ pc' = "dispatch"
    /\ DropShares(cbArgs)
    /\ cbArgs' = Zero
    /\ lastClosed' = -1
    /\ UNCHANGED <<panic, key_seq, submissions, completions, ring,
                   keyLog, kernelHist, dispatchHist>>

----------------------------------------------------------------------------
\* The buffers a caller sends, as <<length, capacity, n>>: MaxBuf bytes, in a
\* BytesMut of that capacity or one more (capacity >= length), all of them to
\* be sent.
SendInputs == {<<MaxBuf, MaxBuf, MaxBuf>>, <<MaxBuf, MaxBuf + 1, MaxBuf>>}

DoAccept == \E s \in Fds, keep \in BOOLEAN : Accept(s, keep)
DoRecv == \E s \in Fds, keep \in BOOLEAN : Recv(s, keep)
DoSend == \E s \in Fds, keep \in BOOLEAN, b \in SendInputs :
              Send(s, keep, b[1], b[2], b[3])
DoClose == \E s \in Fds : Close(s)
----------------------------------------------------------------------------
\* The ids of the requests pushed to the ring and not yet harvested.
OutstandingIds ==
    {e.user_data : e \in Range(sq)} \cup {e.user_data : e \in inflight}
        \cup {e.user_data : e \in Range(cq)}

DoKernel == \E e \in inflight, r \in Fds \cup NegResults :
                KernelComplete(e, r)

\* The ring delivers a completion event the table has no entry for: a second
\* event for the oldest key that was harvested before.  One such event at a
\* time, and the reactor reads the completion queue in flush_submissions
\* only, so the event is delivered between ring.submit() and the harvest.
KernelSpurious(key, result) ==
    /\ pc = "submitted"
    /\ Range(keyLog) \ DOMAIN submissions # {}
    /\ key = Min(Range(keyLog) \ DOMAIN submissions)
    /\ \A e \in Range(cq) : e.user_data \in DOMAIN submissions
    /\ cq' = Append(cq, Cqe(key, result))
    /\ UNCHANGED <<pc, panic, key_seq, submissions, completions, sq, inflight,
                   avail, socks, cbArgs, keyLog, kernelHist, dispatchHist,
                   lastClosed>>

DoSpurious == \E key \in Keys, r \in NegResults : KernelSpurious(key, r)

Next ==
    \/ DoAccept
    \/ DoRecv
    \/ DoSend
    \/ DoClose
    \/ ServeReturn
    \/ DoKernel
    \/ RunOnce
    \/ FlushSubmissionsBegin
    \/ FlushSubmissionsEvent
    \/ FlushCompletionsPop
    \/ FlushCompletionsEnd
    \/ CbReturn

Spec == Init /\ [][Next]_vars

\* The reactor on a ring that can deliver an event the reactor does not track.
SpuriousNext == Next \/ DoSpurious

SpuriousSpec == Init /\ [][SpuriousNext]_vars

\* main.rs loops over run_once, each step of run_once is taken by the one
\* thread, and a continuation returns.  The kernel owes nothing.
Fairness ==
    /\ WF_vars(ServeReturn)
    /\ WF_vars(RunOnce)
    /\ WF_vars(FlushSubmissionsBegin)
    /\ WF_vars(FlushSubmissionsEvent)
    /\ WF_vars(FlushCompletionsPop)
    /\ WF_vars(FlushCompletionsEnd)
    /\ WF_vars(CbReturn)

FairSpec == Spec /\ Fairness

Outstanding == Len(sq) + Cardinality(inflight) + Len(cq)

\* C1: exactly-once dispatch.  With run_once called again and again, every
\* operation whose completion the kernel has produced gets its continuation
\* invoked, and no continuation is ever invoked twice.
C1_ExactlyOnce ==
    /\ \A k \in Keys : (k \in DOMAIN kdone) ~> (invoked[k] = 1)
    /\ [](\A k \in Keys : invoked[k] <= 1)

\* C2: FIFO dispatch order.  Of two operations harvested by the same run_once,
\* the one harvested second has its continuation invoked only after the one
\* harvested first.
C2_FifoDispatch ==
    \A i, j \in 1 .. Len(harvSeq) :
        (i < j /\ harvSeq[j] \in Range(dispSeq)) =>
            \E a, b \in 1 .. Len(dispSeq) :
                a < b /\ dispSeq[a] = harvSeq[i] /\ dispSeq[b] = harvSeq[j]

\* Two continuations invoked by one run_once in harvest order, the operation
\* submitted later having been harvested first.
C2_Witness ==
    /\ Len(dispSeq) >= 2
    /\ harvSeq[1] > harvSeq[2]
    /\ dispSeq[1] = harvSeq[1]
    /\ dispSeq[2] = harvSeq[2]

\* C3: correlation uniqueness.  get_key returns 0 first and a strictly larger
\* value on every later call, and the ids of the requests outstanding in the
\* ring are pairwise distinct.
C3_KeysUnique ==
    /\ (keyLog # << >> => keyLog[1] = 0)
    /\ \A i, j \in 1 .. Len(keyLog) : i < j => keyLog[i] < keyLog[j]
    /\ Cardinality(OutstandingIds) = Outstanding

\* Three ids issued, two of them outstanding at once.
C3_Witness ==
    /\ Len(keyLog) >= 3
    /\ Outstanding >= 2
    /\ panic = "none"

\* C4: recv result.  A recv continuation whose operation the kernel completed
\* with r >= 0 is called with byte count r and a data slice of r bytes.
C4_RecvCount ==
    (lastDisp.op = "Recv" /\ lastDisp.called /\ lastDisp.result >= 0) =>
        (lastDisp.n = lastDisp.result /\ lastDisp.dlen = lastDisp.result)

\* The step pops a Send record that the kernel completed with fewer bytes than
\* the n the caller asked for.
PartialSendDispatched ==
    /\ pc = "dispatch"
    /\ completions # << >>
    /\ Head(completions).op = "Send"
    /\ pc' = "cb"
    /\ kdone[Head(completions).key].result >= 0
    /\ kdone[Head(completions).key].result < Head(completions).n

\* C5: partial send.  When a send is dispatched whose kernel result is short
\* of the requested length, the rest is re-submitted (a new request is pushed
\* to the ring), or at least written to the socket in full by then.
C5_PartialSendResubmitted ==
    [][PartialSendDispatched =>
          (Len(sq') > Len(sq) \/ lastDisp'.n >= Head(completions).n)]_vars

\* A continuation argument that carries the failure.
HandedError(d) == d.n < 0 \/ d.fd < 0

\* C6: completion-time failures.  A record popped with a negative kernel
\* result has its continuation called, with an error outcome, and the reactor
\* goes on.
C6_FailureIsOutcome ==
    (lastDisp.op # "none" /\ lastDisp.result < 0) =>
        (lastDisp.called /\ HandedError(lastDisp) /\ pc # "aborted")

\* C7: submission-time failure.  A call of accept, recv or send on a full
\* submission ring does not abort, and leaves the submissions table and the
\* ready queue as they are.
C7_FullRingIsError ==
    [][(Calling /\ Len(sq) >= RING_SIZE /\ keyLog' # keyLog) =>
          (pc' # "aborted" /\ submissions' = submissions
              /\ completions' = completions)]_vars

\* The records of accepts on the listening socket that are in flight or ready.
AcceptRecords ==
    {k \in DOMAIN submissions : submissions[k].op = "Accept"}

\* C8: accept re-arm.  Every connection the kernel accepted is either still
\* waiting (harvest or dispatch to come) or was handed to exactly one accept
\* continuation; the handle each continuation is given wraps the descriptor
\* the kernel reported for that completion and refers to that connection, so
\* no two invocations share a connection; and the listening socket is open
\* whenever an accept on it is outstanding or a caller holds it.
C8_AcceptRearm ==
    /\ nextConn = Len(handed) + Cardinality({k \in DOMAIN kdone : kdone[k].conn # 0})
    /\ \A i, j \in 1 .. Len(handed) : i < j => handed[i] # handed[j]
    /\ \A k \in Keys : invoked[k] <= 1
    /\ (lastDisp.op = "Accept" /\ lastDisp.called) =>
          /\ lastDisp.fd = lastDisp.result
          /\ lastDisp.conn = lastDisp.kconn
          /\ lastDisp.conn # 0
    /\ (AcceptRecords # {} \/ cbArgs[ListenFd] > 0) =>
          (fdstate[ListenFd] = "open" /\ rc[ListenFd] > 0)

\* The second accept continuation is running, has re-armed the accept, and
\* was handed the descriptor the first connection had used.
C8_Witness ==
    /\ pc = "cb"
    /\ lastDisp.op = "Accept"
    /\ Len(handed) = 2
    /\ AcceptRecords # {}
    /\ fdstate[ListenFd] = "open"
    /\ lastDisp.fd = ListenFd + 1

\* The owners of the Socket wrapping descriptor f: the running caller, the
\* records in the submissions table and those in the ready queue.
Owners(f) ==
    cbArgs[f]
      + Cardinality({k \in DOMAIN submissions : submissions[k].sock = f})
      + Cardinality({i \in 1 .. Len(completions) : completions[i].sock = f})

\* C9: shared-ownership close safety.  A socket's descriptor is open while
\* the handle has an owner and released once it has none, and the strong count
\* is the number of owners.
C9_CloseSafety ==
    \A f \in Fds : f >= ListenFd =>
        /\ rc[f] = Owners(f)
        /\ (Owners(f) > 0 => fdstate[f] = "open")
        /\ (Owners(f) = 0 => fdstate[f] \in {"closed", "raw"})

\* close was called on a connection's handle while a record of an operation in
\* flight held another share: the descriptor is still open.
C9_Witness ==
    /\ lastClosed \in ConnFds
    /\ cbArgs[lastClosed] = 0
    /\ Owners(lastClosed) > 0
    /\ fdstate[lastClosed] = "open"

\* C10: send length.  Every send request pushed to the ring asks for the n
\* bytes its Send record holds.
C10_SendLength ==
    \A e \in Range(sq) :
        e.opcode = "Send" =>
            /\ e.user_data \in DOMAIN submissions
            /\ submissions[e.user_data].op = "Send"
            /\ e.len = submissions[e.user_data].n

\* C11: harvest before dispatch.  While flush_completions runs, and inside
\* every continuation, the harvest iterator of this run_once has nothing left:
\* every completion that was in the ring when the harvest began is on the
\* ready queue or already dispatched.
C11_HarvestBeforeDispatch ==
    pc \in {"dispatch", "cb"} => avail = 0

\* The first continuation of a run_once runs after both completions of the
\* harvest left the ring; the second one waits on the ready queue.
C11_Witness ==
    /\ pc = "cb"
    /\ Len(harvSeq) = 2
    /\ Len(dispSeq) = 1
    /\ Len(completions) = 1
    /\ avail = 0

\* The keys of the records on the ready queue.
QueueKeys == {completions[i].key : i \in 1 .. Len(completions)}

\* The record of key k went into the submissions table.
Enqueued(k) ==
    /\ k \in Range(keyLog)
    /\ ~(panic = "sq_full" /\ k = keyLog[Len(keyLog)])

\* The record of key k was popped from the ready queue for its dispatch.
Popped(k) == invoked[k] > 0 \/ lastDisp.key = k

\* C12: single ownership of records.  A record that was submitted and not yet
\* popped for its dispatch is in exactly one of the submissions table and the
\* ready queue, once; no record is in both; a popped record is in neither.
C12_SingleOwner ==
    /\ \A k \in Keys :
          (Enqueued(k) /\ ~Popped(k)) =>
              /\ (k \in DOMAIN submissions) # (k \in QueueKeys)
              /\ k \in QueueKeys =>
                    Cardinality({i \in 1 .. Len(completions) : completions[i].key = k}) = 1
    /\ DOMAIN submissions \cap QueueKeys = {}
    /\ \A k \in Keys : Popped(k) => k \notin DOMAIN submissions \cup QueueKeys
    /\ \A k \in DOMAIN submissions : submissions[k].key = k /\ Enqueued(k)
    /\ \A k \in QueueKeys : Enqueued(k)

\* One record waits on the ready queue, another in the table, a third was
\* dispatched.
C12_Witness ==
    /\ completions # << >>
    /\ DOMAIN submissions # {}
    /\ \E k \in Keys : invoked[k] = 1

\* C13: table/ring agreement.  The ids of the requests queued, in flight or
\* completed and not yet harvested are the keys of the submissions table, one
\* request for each, and every key is below key_seq.
C13_TableRingAgree ==
    /\ OutstandingIds = DOMAIN submissions
    /\ Cardinality(OutstandingIds) = Outstanding
    /\ \A k \in DOMAIN submissions : k < key_seq

\* A request queued by a continuation, another completed and not yet
\* harvested.
C13_Witness ==
    /\ pc = "cb"
    /\ Len(sq) >= 1
    /\ Len(cq) >= 1
    /\ Cardinality(DOMAIN submissions) >= 2

\* A call to accept, recv or send that returned: it took a key and did not
\* abort.
SubmitStep == keyLog' # keyLog /\ panic' = "none"

\* C14: effect and frame of a successful accept, recv or send.  It takes one
\* key that was never used, adds the record under that key to the table and
\* one request with that key at the end of the submission queue; every other
\* table entry, the ready queue, the kernel's side of the ring and the
\* continuation counts stay as they were.
C14_SubmitFrame ==
    [][SubmitStep =>
        LET k == keyLog'[Len(keyLog')]
        IN /\ Len(keyLog') = Len(keyLog) + 1
           /\ SubSeq(keyLog', 1, Len(keyLog)) = keyLog
           /\ k \notin Range(keyLog)
           /\ k \notin DOMAIN submissions
           /\ DOMAIN submissions' = DOMAIN submissions \cup {k}
           /\ \A j \in DOMAIN submissions : submissions'[j] = submissions[j]
           /\ submissions'[k].key = k
           /\ Len(sq') = Len(sq) + 1
           /\ SubSeq(sq', 1, Len(sq)) = sq
           /\ sq'[Len(sq')].user_data = k
           /\ sq'[Len(sq')].opcode = submissions'[k].op
           /\ completions' = completions
           /\ inflight' = inflight
           /\ cq' = cq
           /\ invoked' = invoked
           /\ dispSeq' = dispSeq
           /\ pc' = pc
      ]_vars

\* A continuation has submitted an operation while another record waits on
\* the ready queue.
C14_Witness ==
    /\ pc = "cb"
    /\ Len(sq) >= 1
    /\ completions # << >>
    /\ sq[Len(sq)].user_data = keyLog[Len(keyLog)]
    /\ sq[Len(sq)].user_data \in DOMAIN submissions

\* A call to close.
CloseStep == lastClosed' # lastClosed /\ lastClosed' # -1

\* The records submitted on descriptor f that wait in the table or on the
\* ready queue.
RecordsOn(f) ==
    {k \in DOMAIN submissions : submissions[k].sock = f}
        \cup {k \in QueueKeys : \E i \in 1 .. Len(completions) :
                                   completions[i].key = k /\ completions[i].sock = f}

\* C15: close only drops one share of the socket.  The ring, key_seq, the
\* table and the ready queue are untouched, the caller and the socket lose one
\* share, and the descriptor stays open while a record submitted on it waits.
C15_CloseFrame ==
    [][CloseStep =>
        LET s == lastClosed'
        IN /\ sq' = sq
           /\ inflight' = inflight
           /\ cq' = cq
           /\ key_seq' = key_seq
           /\ keyLog' = keyLog
           /\ submissions' = submissions
           /\ completions' = completions
           /\ invoked' = invoked
           /\ pc' = pc
           /\ rc'[s] = rc[s] - 1
           /\ cbArgs'[s] = cbArgs[s] - 1
           /\ \A f \in Fds : f # s =>
                 rc'[f] = rc[f] /\ fdstate'[f] = fdstate[f] /\ cbArgs'[f] = cbArgs[f]
           /\ RecordsOn(s) # {} => fdstate'[s] = "open"
      ]_vars

\* The listening socket was closed by its caller while an accept submitted on
\* it is with the kernel.
C15_Witness ==
    /\ lastClosed = ListenFd
    /\ \E k \in DOMAIN submissions :
          /\ submissions[k].sock = lastClosed
          /\ \E e \in inflight : e.user_data = k /\ e.fd = lastClosed
    /\ fdstate[lastClosed] = "open"

\* flush_submissions takes from the ring an event whose id has no entry in
\* the table.
UntrackedHarvest ==
    /\ pc = "harvest"
    /\ avail > 0
    /\ Head(cq).user_data \notin DOMAIN submissions
    /\ avail' # avail

\* C16: an untracked completion is fatal.  The harvest step that meets an
\* event whose id is not in the table aborts the reactor, pushes nothing on
\* the ready queue and invokes nothing; after the abort no record moves and
\* no continuation runs.
C16_UntrackedFatal ==
    [][/\ UntrackedHarvest =>
             /\ pc' = "aborted"
             /\ panic' = "untracked"
             /\ completions' = completions
             /\ submissions' = submissions
             /\ harvSeq' = harvSeq
             /\ invoked' = invoked
             /\ dispSeq' = dispSeq
       /\ panic = "untracked" =>
             /\ pc' = "aborted"
             /\ completions' = completions
             /\ invoked' = invoked
             /\ dispSeq' = dispSeq
      ]_vars

\* The reactor aborted on an event for a key it had harvested before, with
\* records still in the table or on the ready queue.
C16_Witness ==
    /\ panic = "untracked"
    /\ pc = "aborted"
    /\ DOMAIN submissions # {} \/ completions # << >>

\* C17: run_once drains the ready queue.  A run_once that has drained the
\* ready queue, or has ended, has invoked one continuation for each completion
\* it harvested; it does not end inside complete(); outside flush_submissions
\* and flush_completions the ready queue is empty.
C17_RunOnceDrains ==
    /\ (pc = "aborted" \/ (pc = "dispatch" /\ completions = << >>)) =>
          /\ Len(dispSeq) = Len(harvSeq)
          /\ \A k \in Range(harvSeq) : invoked[k] = 1
    /\ panic \notin {"accept_fd", "send_unwrap"}
    /\ pc \in {"serve", "idle", "submitted"} => completions = << >>

\* C18: an operation submitted during a run_once is not harvested in it.  A
\* request waiting in the submission queue is not with the kernel, has no
\* completion in the ring, and its record is in the table, neither harvested
\* nor dispatched; requests reach the kernel only in the step ring.submit()
\* of run_once, which starts between two dispatch phases.
C18_SubmitNextCycle ==
    /\ [](\A i \in 1 .. Len(sq) :
            /\ sq[i].user_data \in DOMAIN submissions
            /\ sq[i].user_data \notin Range(harvSeq) \cup Range(dispSeq)
            /\ invoked[sq[i].user_data] = 0
            /\ \A e \in inflight : e.user_data # sq[i].user_data
            /\ \A j \in 1 .. Len(cq) : cq[j].user_data # sq[i].user_data)
    /\ [][(inflight' \ inflight # {}) =>
             /\ pc = "idle"
             /\ pc' = "submitted"
             /\ sq' = << >>
             /\ inflight' = inflight \cup Range(sq)
             /\ harvSeq = << >>
             /\ dispSeq = << >>
         ]_vars

\* A continuation has returned after submitting an operation; the run_once
\* goes on dispatching the next record with that request still in the
\* submission queue.
C18_Witness ==
    /\ pc = "dispatch"
    /\ Len(dispSeq) >= 1
    /\ Len(sq) >= 1
    /\ sq[1].user_data \in DOMAIN submissions
    /\ completions # << >>

\* The bytes of a send's payload that complete() wrote to the socket itself
\* before it invoked the continuation.
CompleteWrote(d) == IF d.op = "Send" /\ d.called THEN d.n ELSE 0

\* C19: the payload of a send is written once.  When the continuation of a
\* send is invoked after the kernel's send request wrote bytes of the
\* payload, complete() has written none of it again.
C19_SingleWrite ==
    (lastDisp.op = "Send" /\ lastDisp.called /\ lastDisp.result > 0) =>
        CompleteWrote(lastDisp) = 0

\* C20: no Close record.  Every record in the table and on the ready queue is
\* an Accept, a Recv or a Send, also after calls to close, and the reactor
\* never ends in the Close arm of prepare or complete.
C20_NoCloseRecord ==
    /\ \A k \in DOMAIN submissions : submissions[k].op \in {"Accept", "Recv", "Send"}
    /\ \A i \in 1 .. Len(completions) : completions[i].op \in {"Accept", "Recv", "Send"}
    /\ panic # "todo"

\* A continuation has called close on a connection while records wait both
\* in the table and on the ready queue.
C20_Witness ==
    /\ pc = "cb"
    /\ lastClosed \in ConnFds
    /\ DOMAIN submissions # {}
    /\ completions # << >>
====
